---- MODULE Spec2Model ----
(***************************************************************************)
(* Model of src/flops_benchmark.cpp: the AVX-512 FMA throughput benchmark. *)
(*                                                                         *)
(* Units.  TLC's integers are 32 bits wide, and the operation count of one *)
(* full-budget single-precision run is 100000000 * 10 * 16 * 2 = 3.2e10,   *)
(* so quantities are held in scaled units:                                 *)
(*   - an operation count is held in units of 16 floating-point operations *)
(*     (the work of one 8-lane double-precision FMA: 8 * 2);               *)
(*   - a duration is a whole number of clock ticks of 100 microseconds, as *)
(*     the difference of two clock readings;                               *)
(*   - a throughput is held in units of 16 operations per tick, that is    *)
(*     160000 operations per second, so 1e9 op/s is 6250 units and one     *)
(*     hundredth of a GFLOPS is 62.5 units.                                *)
(*                                                                         *)
(* A C++ double is modelled as a binary floating-point number with a       *)
(* significand of MantBits bits, round-to-nearest-even, with +inf, -inf    *)
(* and NaN; the unit is the format's smallest step.  MantBits stands in    *)
(* for the 53 bits of a double: it is wide enough that every operation     *)
(* count of the program is exact, as it is in a double.                    *)
(***************************************************************************)
EXTENDS Integers, Sequences, FiniteSets, TLC

\* src/flops_benchmark.cpp:11, 12
ITERATIONS == 100000000
UNROLL == 10

\* Significand width of the modelled double.
MantBits == 24

(***************************************************************************)
(* double arithmetic                                                       *)
(***************************************************************************)
Fin(n) == [cls |-> "fin", v |-> n]
Inf(sign) == [cls |-> "inf", v |-> sign]
NaN == [cls |-> "nan", v |-> 0]

IsFin(x) == x.cls = "fin"

Abs(n) == IF n < 0 THEN -n ELSE n
Sgn(n) == IF n < 0 THEN -1 ELSE 1

\* The first magnitude the significand does not hold.
MantLimit == 2 ^ MantBits

\* The least s such that q / 2^s fits the significand.
RECURSIVE ShiftOf(_)
ShiftOf(q) == IF q < MantLimit THEN 0 ELSE 1 + ShiftOf(q \div 2)

\* Round-to-nearest-even of the non-negative rational q + rem/den
\* (0 <= rem < den) to the format.
RoundMag(q, rem, den) ==
    LET s == ShiftOf(q)
    IN  IF s = 0
        THEN IF 2 * rem > den \/ (2 * rem = den /\ q % 2 = 1) THEN q + 1 ELSE q
        ELSE LET hi == q \div (2 ^ s)
                 low == q % (2 ^ s)
                 half == 2 ^ (s - 1)
                 up == low > half \/ (low = half /\ (rem > 0 \/ hi % 2 = 1))
             IN  (IF up THEN hi + 1 ELSE hi) * (2 ^ s)

\* (double)n for a size_t n.
ToDouble(n) == Fin(RoundMag(n, 0, 1))

\* x * k for a double x and a small positive integer constant k.
FMul(x, k) ==
    IF IsFin(x) THEN Fin(Sgn(x.v) * RoundMag(Abs(x.v) * k, 0, 1)) ELSE x

\* x + y on doubles.
FAdd(x, y) ==
    IF x.cls = "nan" \/ y.cls = "nan" THEN NaN
    ELSE IF x.cls = "inf" /\ y.cls = "inf"
         THEN (IF x.v = y.v THEN x ELSE NaN)
    ELSE IF x.cls = "inf" THEN x
    ELSE IF y.cls = "inf" THEN y
    ELSE LET s == x.v + y.v IN Fin(Sgn(s) * RoundMag(Abs(s), 0, 1))

\* flops / elapsed.count(): x an operation count, t a duration in ticks.
FDiv(x, t) ==
    IF x.cls = "nan" THEN NaN
    ELSE IF x.cls = "inf" THEN (IF t = 0 THEN x ELSE Inf(x.v * Sgn(t)))
    ELSE IF t = 0 THEN (IF x.v = 0 THEN NaN ELSE Inf(Sgn(x.v)))
    ELSE LET a == Abs(x.v)
             b == Abs(t)
         IN  Fin(Sgn(x.v) * Sgn(t) * RoundMag(a \div b, a % b, b))

(***************************************************************************)
(* benchmark_avx512_sp / benchmark_avx512_dp                               *)
(***************************************************************************)
\* Floats per 512-bit vector (line 62) and doubles per vector (line 109).
SP_LANES == 16
DP_LANES == 8

\* iterations * UNROLL * lanes * 2 as the code computes it in double
\* arithmetic, in units of 16 operations: the trailing factors lanes * 2
\* are 32 = 2 units (single) and 16 = 1 unit (double).
Flops(iterations, lanes) ==
    FMul(FMul(ToDouble(iterations), UNROLL), (lanes * 2) \div 16)

\* The value returned for an iteration count and the duration, in ticks,
\* between the two clock readings around the loop.
benchmark_avx512_sp(iterations, elapsed) ==
    FDiv(Flops(iterations, SP_LANES), elapsed)

\* A variant: the lane count of single precision left in the copy.
benchmark_avx512_dp_spLanes(iterations, elapsed) ==
    FDiv(Flops(iterations, SP_LANES), elapsed)

benchmark_avx512_dp(iterations, elapsed) ==
    FDiv(Flops(iterations, DP_LANES), elapsed)

benchmark(prec, iterations, elapsed) ==
    IF prec = "sp" THEN benchmark_avx512_sp(iterations, elapsed)
    ELSE benchmark_avx512_dp(iterations, elapsed)

\* for (double r : results) total += r;  with total starting at 0.
RECURSIVE SumFrom(_, _, _)
SumFrom(results, k, total) ==
    IF k > Len(results) THEN total
    ELSE SumFrom(results, k + 1, FAdd(total, results[k]))

\* A variant: the loop starts one slot late.
SumSlots_skipFirst(results) == SumFrom(results, 2, Fin(0))

SumSlots(results) == SumFrom(results, 1, Fin(0))

\* std::fixed << std::setprecision(2) << x / 1e9: the printed number in
\* hundredths of a GFLOPS (62.5 throughput units each), or inf / nan.
FormatGflops(x) ==
    IF ~IsFin(x) THEN x
    ELSE LET a == Abs(x.v)
             q == a \div 125
             r == a % 125
         IN  Fin(Sgn(x.v) * (2 * q + (2 * r + 62) \div 125))

Blank == [cls |-> "none", v |-> 0]
Line(tag, n, a, b) == [tag |-> tag, n |-> n, a |-> a, b |-> b]

(***************************************************************************)
(* The environment: the processor, the clock and the thread supply.        *)
(***************************************************************************)
\* The duration the clock reports around the loop of one kernel call:
\* worker idx of a round of n workers (n = 0: the single-thread call).
\* high_resolution_clock is the system clock, which may stand still or be
\* set back between two readings.
ClockProfiles == {"steady", "skewed", "anomaly"}

Elapsed(clk, prec, n, idx) ==
    CASE clk = "steady" -> 4
      [] clk = "skewed" -> 3 + (idx % 3) + (IF prec = "dp" THEN 1 ELSE 0)
      [] clk = "anomaly" -> (IF idx = 0 THEN 0 ELSE IF idx = 1 THEN -2 ELSE 5)

\* avx512: the processor has the AVX-512 instructions.
\* hwc:    what std::thread::hardware_concurrency() returns (0: unknown).
\* clk:    the clock profile.
\* supply: the number of threads the platform lets the process create
\*         before std::thread's constructor throws std::system_error.
Env(avx512, hwc, clk, supply) ==
    [avx512 |-> avx512, hwc |-> hwc, clk |-> clk, supply |-> supply]

\* The environments of a whole run of main.  A run creates
\* 2 * (4 + 8 + 16) = 56 threads, so a supply of 64 never runs out; a
\* supply of 30 runs out in the single-precision round of level 16, 14 in
\* that of level 8, 6 in the double-precision round of level 4 and 3 in
\* its single-precision round.
Envs == { Env(TRUE, 8, "steady", 64),
          Env(TRUE, 0, "skewed", 30),
          Env(TRUE, 0, "anomaly", 14),
          Env(TRUE, 8, "skewed", 6),
          Env(TRUE, 8, "steady", 3),
          Env(FALSE, 8, "steady", 64) }

\* A variant: the last two calls swapped.
Levels_swapped == <<4, 16, 8>>

\* run_multithread_benchmark(4); (8); (16); in main
Levels == <<4, 8, 16>>

VARIABLES
    env,                    \* the environment of the run
    pc,                     \* where main (or the orchestrator) stands
    status,                 \* the process's exit status, -1 while running
    out,                    \* the lines written to std::cout
    phase,                  \* the measurement phases begun, in order
    fn,                     \* the arguments of a lone kernel call
    sp_flops, dp_flops, hw_threads,        \* main's locals
    lv,                     \* which call of main is running (0: none)
    num_threads, iterations_per_thread,    \* the orchestrator's frame
    i,                      \* its spawn loop position
    threads,                \* std::vector<std::thread>
    results_sp, results_dp, total_sp, total_dp,
    workers,                \* the worker threads still running
    created,                \* the threads created so far
    writes_sp, writes_dp,   \* per result slot: <<worker, iterations>> of
                            \* each write to it in this call
    iters_done,             \* iterations run by the round's finished workers
    racyRead,               \* a slot was read while a worker was running
    badWrite                \* a write outside the round or outside the vector

vars == <<env, pc, status, out, phase, fn, sp_flops, dp_flops, hw_threads, lv,
          num_threads, iterations_per_thread, i, threads, results_sp,
          results_dp, total_sp, total_dp, workers, created, writes_sp,
          writes_dp, iters_done, racyRead, badWrite>>

mainLocals == <<sp_flops, dp_flops, hw_threads>>
frame == <<num_threads, iterations_per_thread, i, threads, results_sp,
           results_dp, total_sp, total_dp>>
history == <<writes_sp, writes_dp, iters_done, racyRead, badWrite>>

NoCall == [prec |-> "none", it |-> 0, el |-> 0]

InitRest ==
    /\ status = -1 /\ out = <<>> /\ phase = <<>>
    /\ sp_flops = Fin(0) /\ dp_flops = Fin(0) /\ hw_threads = 0
    /\ lv = 0
    /\ iterations_per_thread = 0 /\ i = 0
    /\ threads = <<>> /\ results_sp = <<>> /\ results_dp = <<>>
    /\ total_sp = Fin(0) /\ total_dp = Fin(0)
    /\ workers = {} /\ created = 0 /\ writes_sp = <<>> /\ writes_dp = <<>>
    /\ iters_done = 0 /\ racyRead = FALSE /\ badWrite = FALSE

Init ==
    /\ env \in Envs
    /\ pc = "banner"
    /\ fn = NoCall
    /\ num_threads = 0
    /\ InitRest

(***************************************************************************)
(* main                                                                    *)
(***************************************************************************)
\* Lines 155-163: the banner and the test parameters.
Banner ==
    /\ pc = "banner"
    /\ out' = out \o <<Line("banner", 0, Blank, Blank),
                       Line("params", ITERATIONS, Fin(UNROLL), Blank)>>
    /\ pc' = "single_sp"
    /\ UNCHANGED <<env, status, phase, fn, mainLocals, lv, frame, workers,
                   created, history>>

\* Lines 166-170 on a processor with AVX-512.
SingleSP ==
    /\ pc = "single_sp" /\ env.avx512
    /\ sp_flops' = benchmark_avx512_sp(ITERATIONS, Elapsed(env.clk, "sp", 0, 0))
    /\ out' = out \o <<Line("single_hdr", 0, Blank, Blank),
                       Line("single_sp", 0, FormatGflops(sp_flops'), Blank)>>
    /\ phase' = Append(phase, <<"single_sp", ITERATIONS>>)
    /\ pc' = "single_dp"
    /\ UNCHANGED <<env, status, fn, dp_flops, hw_threads, lv, frame, workers,
                   created, history>>

\* Lines 166-168 on a processor without AVX-512: main checks nothing, the
\* single-thread phase begins, and the first instruction of
\* benchmark_avx512_sp (line 19) is an illegal instruction: the process is
\* killed by SIGILL and has written no diagnostic.
SingleSPIllegal ==
    /\ pc = "single_sp" /\ ~env.avx512
    /\ out' = Append(out, Line("single_hdr", 0, Blank, Blank))
    /\ phase' = Append(phase, <<"single_sp", ITERATIONS>>)
    /\ pc' = "killed" /\ status' = 132
    /\ UNCHANGED <<env, fn, mainLocals, lv, frame, workers, created, history>>

\* Lines 172-174.
SingleDP ==
    /\ pc = "single_dp"
    /\ dp_flops' = benchmark_avx512_dp(ITERATIONS, Elapsed(env.clk, "dp", 0, 0))
    /\ out' = Append(out, Line("single_dp", 0, FormatGflops(dp_flops'), Blank))
    /\ phase' = Append(phase, <<"single_dp", ITERATIONS>>)
    /\ pc' = "hw"
    /\ UNCHANGED <<env, status, fn, sp_flops, hw_threads, lv, frame, workers,
                   created, history>>

\* Lines 177-180: the hardware thread count is printed, then the first call.
HwQuery ==
    /\ pc = "hw"
    /\ hw_threads' = env.hwc
    /\ out' = Append(out, Line("hw", hw_threads', Blank, Blank))
    /\ phase' = Append(phase, <<"hw", 0>>)
    /\ lv' = 1 /\ num_threads' = Levels[1]
    /\ pc' = "mt_enter"
    /\ UNCHANGED <<env, status, fn, sp_flops, dp_flops, iterations_per_thread,
                   i, threads, results_sp, results_dp, total_sp, total_dp,
                   workers, created, history>>

\* Lines 184-186.
Footer ==
    /\ pc = "footer"
    /\ out' = Append(out, Line("footer", 0, Blank, Blank))
    /\ pc' = "done" /\ status' = 0
    /\ UNCHANGED <<env, phase, fn, mainLocals, lv, frame, workers, created,
                   history>>

(***************************************************************************)
(* run_multithread_benchmark                                               *)
(***************************************************************************)
Zeros(n) == [k \in 1..n |-> Fin(0)]
NoWrites(n) == [k \in 1..n |-> <<>>]

\* Line 118: size_t iterations_per_thread = ITERATIONS / num_threads;
Share(n) == ITERATIONS \div n

\* Lines 114-118: the vectors and the per-thread share.
MtEnter ==
    /\ pc = "mt_enter"
    /\ threads' = <<>>
    /\ results_sp' = Zeros(num_threads) /\ results_dp' = Zeros(num_threads)
    /\ writes_sp' = NoWrites(num_threads) /\ writes_dp' = NoWrites(num_threads)
    /\ iterations_per_thread' = Share(num_threads)
    /\ i' = 0 /\ iters_done' = 0
    /\ total_sp' = Fin(0) /\ total_dp' = Fin(0)
    /\ phase' = Append(phase, <<"round_sp", num_threads>>)
    /\ pc' = "spawn_sp"
    /\ UNCHANGED <<env, status, out, fn, mainLocals, lv, num_threads, workers,
                   created, racyRead, badWrite>>

\* A variant: i captured by reference, read when the worker writes.
CapturedIndex_byReference(atSpawn, atRun) == atRun

\* The index the lambda [&, i] writes to: i is captured by value.
CapturedIndex(atSpawn, atRun) == atSpawn

\* A variant that hands the remainder to the last worker.
WorkerIterations_remainderToLast(idx) ==
    IF idx = num_threads - 1
    THEN iterations_per_thread + (ITERATIONS % num_threads)
    ELSE iterations_per_thread

\* The iteration count the lambda passes to the kernel (lines 124, 139).
WorkerIterations(idx) == iterations_per_thread

\* A thread of the round of num_threads workers, running the lambda with
\* its copy idx of i; everything else the lambda names is a reference
\* into the orchestrator's frame.
Worker(prec, idx) == <<prec, num_threads, idx>>
PrecOf(w) == w[1]
RoundOf(w) == w[2]
IdxOf(w) == w[3]

\* One pass of a spawn loop (lines 122-126, 137-141): emplace_back starts
\* a thread running the lambda.
Spawn(prec, here, next) ==
    /\ pc = here /\ i < num_threads
    /\ created < env.supply
    /\ workers' = workers \cup {Worker(prec, i)}
    /\ threads' = Append(threads, Worker(prec, i))
    /\ created' = created + 1
    /\ i' = i + 1
    /\ pc' = IF i + 1 < num_threads THEN here ELSE next
    /\ UNCHANGED <<env, status, out, phase, fn, mainLocals, lv, num_threads,
                   iterations_per_thread, results_sp, results_dp, total_sp,
                   total_dp, history>>

\* emplace_back throws std::system_error: nothing catches it, so
\* std::terminate aborts the process (SIGABRT) and its threads with it.
SpawnFail(here) ==
    /\ pc = here /\ i < num_threads
    /\ created >= env.supply
    /\ pc' = "aborted" /\ status' = 134
    /\ workers' = {}
    /\ UNCHANGED <<env, out, phase, fn, mainLocals, lv, frame, created,
                   history>>

SpawnSP == Spawn("sp", "spawn_sp", "join_sp")
SpawnSPFail == SpawnFail("spawn_sp")
SpawnDP == Spawn("dp", "spawn_dp", "join_dp")
SpawnDPFail == SpawnFail("spawn_dp")

\* A variant: threads detached, a join that does not wait.
Joined_noWait(t) == TRUE

\* t.join() returns once the thread has run to its end.
Joined(t) == t \notin workers

\* A variant: only the last thread of the vector is joined.
AllJoined_lastOnly(ts) == Len(ts) = 0 \/ Joined(ts[Len(ts)])

\* for (auto& t : threads) t.join();  (lines 127, 142): main blocks in
\* each join in turn and does nothing else, so the loop ends exactly when
\* every thread of the vector has ended.
AllJoined(ts) == \A k \in 1..Len(ts) : Joined(ts[k])

Join(here, next) ==
    /\ pc = here
    /\ AllJoined(threads)
    /\ pc' = next
    /\ UNCHANGED <<env, status, out, phase, fn, mainLocals, lv, num_threads,
                   iterations_per_thread, i, threads, results_sp, results_dp,
                   total_sp, total_dp, workers, created, history>>

JoinSP == Join("join_sp", "sum_sp")
JoinDP == Join("join_dp", "sum_dp")

\* Lines 130-133: the single-precision total, then threads.clear().
SumSP ==
    /\ pc = "sum_sp"
    /\ total_sp' = SumSlots(results_sp)
    /\ racyRead' = (racyRead \/ workers # {})
    /\ threads' = <<>> /\ i' = 0 /\ iters_done' = 0
    /\ phase' = Append(phase, <<"round_dp", num_threads>>)
    /\ pc' = "spawn_dp"
    /\ UNCHANGED <<env, status, out, fn, mainLocals, lv, num_threads,
                   iterations_per_thread, results_sp, results_dp, total_dp,
                   workers, created, writes_sp, writes_dp, badWrite>>

\* Lines 144-152 and the return to main (lines 180-184): the
\* double-precision total, the three lines of the level, the next call.
SumDP ==
    /\ pc = "sum_dp"
    /\ total_dp' = SumSlots(results_dp)
    /\ racyRead' = (racyRead \/ workers # {})
    /\ out' = Append(out, Line("mt", num_threads, FormatGflops(total_sp),
                               FormatGflops(total_dp')))
    /\ phase' = Append(phase, <<"report", num_threads>>)
    /\ threads' = <<>>
    /\ IF lv = 0 THEN /\ pc' = "returned"
                      /\ UNCHANGED <<lv, num_threads>>
       ELSE IF lv < Len(Levels)
            THEN /\ lv' = lv + 1 /\ num_threads' = Levels[lv + 1]
                 /\ pc' = "mt_enter"
            ELSE /\ pc' = "footer"
                 /\ UNCHANGED <<lv, num_threads>>
    /\ UNCHANGED <<env, status, fn, mainLocals, iterations_per_thread, i,
                   results_sp, results_dp, total_sp, workers, created,
                   writes_sp, writes_dp, iters_done, badWrite>>

\* A worker's write is inside its round: the frame is that of its call and
\* the orchestrator has not passed the round's join.
InRound(w) ==
    /\ RoundOf(w) = num_threads
    /\ \/ PrecOf(w) = "sp" /\ pc \in {"spawn_sp", "join_sp"}
       \/ PrecOf(w) = "dp" /\ pc \in {"spawn_dp", "join_dp"}

\* A worker runs its lambda to the end (lines 123-125, 138-140): the kernel
\* call, then the write of its result slot.
WorkerFinish(w) ==
    /\ w \in workers
    /\ workers' = workers \ {w}
    /\ LET it == WorkerIterations(IdxOf(w))
           r == benchmark(PrecOf(w), it,
                          Elapsed(env.clk, PrecOf(w), RoundOf(w), IdxOf(w)))
           slot == CapturedIndex(IdxOf(w), i) + 1
           ok == InRound(w) /\ slot \in 1..Len(results_sp)
           entry == <<IdxOf(w), it>>
       IN  /\ badWrite' = (badWrite \/ ~ok)
           /\ IF ok /\ PrecOf(w) = "sp"
              THEN /\ results_sp' = [results_sp EXCEPT ![slot] = r]
                   /\ writes_sp' = [writes_sp EXCEPT ![slot] = Append(@, entry)]
                   /\ UNCHANGED <<results_dp, writes_dp>>
              ELSE IF ok
              THEN /\ results_dp' = [results_dp EXCEPT ![slot] = r]
                   /\ writes_dp' = [writes_dp EXCEPT ![slot] = Append(@, entry)]
                   /\ UNCHANGED <<results_sp, writes_sp>>
              ELSE UNCHANGED <<results_sp, results_dp, writes_sp, writes_dp>>
           /\ iters_done' = IF ok THEN iters_done + it ELSE iters_done
    /\ UNCHANGED <<env, pc, status, out, phase, fn, mainLocals, lv,
                   num_threads, iterations_per_thread, i, threads, total_sp,
                   total_dp, created, racyRead>>

Finish == \E w \in workers : WorkerFinish(w)

Orchestrate ==
    \/ MtEnter
    \/ SpawnSP \/ SpawnSPFail \/ JoinSP \/ SumSP
    \/ SpawnDP \/ SpawnDPFail \/ JoinDP \/ SumDP
    \/ Finish

Next ==
    \/ Banner \/ SingleSP \/ SingleSPIllegal \/ SingleDP \/ HwQuery \/ Footer
    \/ Orchestrate

Spec == Init /\ [][Next]_vars

(***************************************************************************)
(* One call of run_multithread_benchmark(N) for any worker count N.        *)
(* A share such as 100000000 / 3 = 33333333 has more significant bits than *)
(* MantBits, so in these runs the throughput values are rounded where a    *)
(* double would be exact; the iteration counts are integers and are not.   *)
(***************************************************************************)
MaxWorkers == 5

EnvsRun == { Env(TRUE, 8, clk, supply) :
             clk \in ClockProfiles, supply \in {3, 64} }

InitRun ==
    /\ env \in EnvsRun
    /\ pc = "mt_enter"
    /\ fn = NoCall
    /\ num_threads \in 1..MaxWorkers
    /\ InitRest

SpecRun == InitRun /\ [][Orchestrate]_vars

(***************************************************************************)
(* One call of a kernel function with any iteration count and duration,    *)
(* and the print of its result as main prints it.                          *)
(***************************************************************************)
\* Iteration counts: tiny ones, the 1000 of the worked example, and the
\* counts the program passes.
IterationCounts == {0, 1, 3, 7, 1000, 6250000, 12500000, 25000000, 100000000}

\* Durations in ticks, among them none (0) and a clock set back (-3).
Durations == {-3, 0, 1, 2, 3, 7, 10}

InitFn ==
    /\ env = Env(TRUE, 8, "steady", 64)
    /\ pc = "fn_call"
    /\ fn \in [prec : {"sp", "dp"}, it : IterationCounts, el : Durations]
    /\ num_threads = 0
    /\ InitRest

\* double x = benchmark_avx512_sp(n);  or  benchmark_avx512_dp(n);
FnCall ==
    /\ pc = "fn_call"
    /\ IF fn.prec = "sp"
       THEN /\ sp_flops' = benchmark_avx512_sp(fn.it, fn.el)
            /\ UNCHANGED dp_flops
       ELSE /\ dp_flops' = benchmark_avx512_dp(fn.it, fn.el)
            /\ UNCHANGED sp_flops
    /\ pc' = "fn_print"
    /\ UNCHANGED <<env, status, out, phase, fn, hw_threads, lv, frame, workers,
                   created, history>>

\* std::cout << ... << x / 1e9 << " GFLOPS\n";
FnPrint ==
    /\ pc = "fn_print"
    /\ out' = Append(out, IF fn.prec = "sp"
                          THEN Line("single_sp", 0, FormatGflops(sp_flops), Blank)
                          ELSE Line("single_dp", 0, FormatGflops(dp_flops), Blank))
    /\ pc' = "fn_done"
    /\ UNCHANGED <<env, status, phase, fn, mainLocals, lv, frame, workers,
                   created, history>>

NextFn == FnCall \/ FnPrint

SpecFn == InitFn /\ [][NextFn]_vars

(***************************************************************************)
(* Properties                                                              *)
(***************************************************************************)
OrchestratorPcs ==
    {"spawn_sp", "join_sp", "sum_sp", "spawn_dp", "join_dp", "sum_dp"}

WrittenOnce(ws) == \A k \in 1..Len(ws) : Len(ws[k]) = 1

\* C1: in run_multithread_benchmark(N) every worker of both rounds runs
\* exactly ITERATIONS / N iterations (integer division), so a round runs
\* N * (ITERATIONS / N) <= ITERATIONS iterations and the remainder
\* ITERATIONS mod N is run by no worker; for N = 4, 8, 16 the share is
\* 25000000, 12500000, 6250000.
C1_EqualShares ==
    /\ Share(4) = 25000000 /\ Share(8) = 12500000 /\ Share(16) = 6250000
    /\ pc \in OrchestratorPcs \cup {"returned"} =>
        /\ \A k \in 1..Len(writes_sp) : \A m \in 1..Len(writes_sp[k]) :
               writes_sp[k][m][2] = ITERATIONS \div num_threads
        /\ \A k \in 1..Len(writes_dp) : \A m \in 1..Len(writes_dp[k]) :
               writes_dp[k][m][2] = ITERATIONS \div num_threads
    /\ pc \in {"sum_sp", "sum_dp"} =>
        /\ WrittenOnce(IF pc = "sum_sp" THEN writes_sp ELSE writes_dp)
        /\ iters_done = num_threads * (ITERATIONS \div num_threads)
        /\ iters_done <= ITERATIONS
        /\ ITERATIONS - iters_done = ITERATIONS % num_threads

\* A round of 3 workers has run 99999999 iterations: one is dropped.
C1_Witness ==
    /\ pc = "sum_dp" /\ num_threads = 3
    /\ iters_done = 99999999
    /\ WrittenOnce(writes_dp)

\* C2: in every round, under every interleaving, the orchestrator reads
\* the result slots to form the total only after all N workers of the
\* round have written their slot and ended.
C2_JoinBeforeSum ==
    /\ ~racyRead
    /\ pc = "sum_sp" => workers = {} /\ WrittenOnce(writes_sp)
    /\ pc = "sum_dp" => workers = {} /\ WrittenOnce(writes_dp)

\* The orchestrator is about to sum the 8 slots of a double-precision round.
C2_Witness ==
    /\ pc = "sum_dp" /\ num_threads = 8
    /\ workers = {} /\ WrittenOnce(writes_dp) /\ ~racyRead

\* C3: in every round the result vectors have N slots before any worker
\* is spawned, worker i writes slot i only, no slot is written twice, no
\* slot is written after the round's join, and at the join every slot has
\* been written exactly once.
C3_OneWriterPerSlot ==
    /\ ~badWrite
    /\ pc \in OrchestratorPcs =>
        /\ Len(results_sp) = num_threads /\ Len(results_dp) = num_threads
        /\ \A k \in 1..num_threads :
            /\ Len(writes_sp[k]) <= 1 /\ Len(writes_dp[k]) <= 1
            /\ \A m \in 1..Len(writes_sp[k]) : writes_sp[k][m][1] = k - 1
            /\ \A m \in 1..Len(writes_dp[k]) : writes_dp[k][m][1] = k - 1
        /\ \A w \in workers :
               Len((IF PrecOf(w) = "sp" THEN writes_sp ELSE writes_dp)
                       [IdxOf(w) + 1]) = 0
    /\ pc \in {"sum_sp", "spawn_dp", "join_dp", "sum_dp"} =>
           WrittenOnce(writes_sp)
    /\ pc = "sum_dp" => WrittenOnce(writes_dp)

\* Worker 7 of a round of 8 has written its slot while worker 0 still runs.
C3_Witness ==
    /\ pc = "join_sp" /\ num_threads = 8
    /\ Len(writes_sp[8]) = 1 /\ Len(writes_sp[1]) = 0
    /\ Worker("sp", 0) \in workers

\* The throughput worker k - 1 of a round of n workers obtains.
ExpectedSlot(prec, n, k) ==
    benchmark(prec, ITERATIONS \div n, Elapsed(env.clk, prec, n, k - 1))

\* The double-precision sum of the expected slots k..n on top of acc.
RECURSIVE ExpectedTotal(_, _, _, _)
ExpectedTotal(prec, n, k, acc) ==
    IF k > n THEN acc
    ELSE ExpectedTotal(prec, n, k + 1, FAdd(acc, ExpectedSlot(prec, n, k)))

\* The sum of finite slots in exact integer arithmetic.
RECURSIVE ExactSum(_, _)
ExactSum(results, k) ==
    IF k > Len(results) THEN 0 ELSE results[k].v + ExactSum(results, k + 1)

AllFinite(results) == \A k \in 1..Len(results) : IsFin(results[k])

\* The level whose report was printed last, once one was.
LastLevel == IF pc = "mt_enter" THEN lv - 1 ELSE lv

\* C4 (as amended): the total of a round is the sum of its N slots in
\* double arithmetic, accumulated from 0 in slot order 0..N-1, whatever
\* the order in which the workers finished, and this is the number the
\* round reports; it is the exact sum whenever no partial sum is rounded,
\* as for {1e9, 1.1e9, 0.9e9, 1e9} (6250, 6875, 5625, 6250 units), whose
\* total is exactly 4.0e9 (25000 units).
C4_TotalIsSlotOrderSum ==
    /\ pc = "banner" =>
           SumSlots(<<Fin(6250), Fin(6875), Fin(5625), Fin(6250)>>) = Fin(25000)
    /\ pc = "spawn_dp" /\ i = 0 /\ workers = {} =>
           total_sp = ExpectedTotal("sp", num_threads, 1, Fin(0))
    /\ (pc = "mt_enter" /\ lv > 1) \/ pc = "footer" =>
        /\ total_sp = ExpectedTotal("sp", Levels[LastLevel], 1, Fin(0))
        /\ total_dp = ExpectedTotal("dp", Levels[LastLevel], 1, Fin(0))
        /\ out[Len(out)] = Line("mt", Levels[LastLevel], FormatGflops(total_sp),
                                FormatGflops(total_dp))

\* A round of 4 workers whose total differs from the exact sum of its slots.
C4_Witness ==
    /\ pc = "spawn_dp" /\ i = 0 /\ num_threads = 4
    /\ AllFinite(results_sp) /\ IsFin(total_sp)
    /\ total_sp.v # ExactSum(results_sp, 1)
    /\ total_sp = ExpectedTotal("sp", 4, 1, Fin(0))

\* C4 as stated: the total of a round is the exact sum of its N slots.
C4_TotalIsExactSum ==
    pc = "spawn_dp" /\ i = 0 /\ AllFinite(results_sp) =>
        total_sp = Fin(ExactSum(results_sp, 1))

\* C5: for an iteration count n > 0 and a positive duration,
\* benchmark_avx512_sp returns (n * 10 * 16 * 2) / elapsed and
\* benchmark_avx512_dp returns (n * 10 * 8 * 2) / elapsed, the quotient
\* correctly rounded; 1000 iterations in single precision are 320000
\* operations (20000 units), and over 0.0001 s (1 tick) the result is
\* 3200000000 op/s (20000 units), printed as 3.20 GFLOPS.
C5_ThroughputFormula ==
    pc \in {"fn_print", "fn_done"} /\ fn.it > 0 /\ fn.el > 0 =>
        LET ops == IF fn.prec = "sp" THEN fn.it * 10 * ((16 * 2) \div 16)
                   ELSE fn.it * 10 * ((8 * 2) \div 16)
            res == IF fn.prec = "sp" THEN sp_flops ELSE dp_flops
        IN  /\ res = Fin(RoundMag(ops \div fn.el, ops % fn.el, fn.el))
            /\ (ops % fn.el = 0 /\ ops \div fn.el < MantLimit) =>
                   res.v * fn.el = ops
            /\ (fn.prec = "sp" /\ fn.it = 1000 /\ fn.el = 1) =>
                /\ Flops(fn.it, SP_LANES) = Fin(20000)
                /\ res = Fin(20000)
                /\ pc = "fn_done" => out[1].a = Fin(320)

\* The worked example: 1000 iterations, single precision, one tick.
C5_Witness ==
    /\ pc = "fn_done"
    /\ fn = [prec |-> "sp", it |-> 1000, el |-> 1]
    /\ sp_flops = Fin(20000) /\ out[1].a = Fin(320)

Degenerate(x) == x.cls \in {"inf", "nan"} \/ (x.cls = "fin" /\ x.v < 0)

\* C6: when the duration around a kernel call is zero or negative the
\* harness does not divide by it, so no infinite, NaN or negative
\* throughput is ever held in a result, summed into a total or printed.
C6_NoDegenerateThroughput ==
    /\ ~Degenerate(sp_flops) /\ ~Degenerate(dp_flops)
    /\ ~Degenerate(total_sp) /\ ~Degenerate(total_dp)
    /\ \A k \in 1..Len(out) : ~Degenerate(out[k].a) /\ ~Degenerate(out[k].b)

ExpectedPhases ==
    << <<"single_sp", 100000000>>, <<"single_dp", 100000000>>, <<"hw", 0>>,
       <<"round_sp", 4>>, <<"round_dp", 4>>, <<"report", 4>>,
       <<"round_sp", 8>>, <<"round_dp", 8>>, <<"report", 8>>,
       <<"round_sp", 16>>, <<"round_dp", 16>>, <<"report", 16>> >>

ExpectedLines ==
    << <<"banner", 0>>, <<"params", 100000000>>, <<"single_hdr", 0>>,
       <<"single_sp", 0>>, <<"single_dp", 0>>, <<"hw", env.hwc>>,
       <<"mt", 4>>, <<"mt", 8>>, <<"mt", 16>>, <<"footer", 0>> >>

IsPrefix(s, t) == Len(s) <= Len(t) /\ SubSeq(t, 1, Len(s)) = s

\* C7: every run of main goes through the phases in one fixed order:
\* single-thread single precision with the full budget, single-thread
\* double precision with the full budget, the hardware thread count, then
\* the orchestrator at 4, 8 and 16 workers, each level running single
\* precision, then double precision, then reporting; the hardware thread
\* count changes nothing of this, and status 0 is returned only after the
\* 16-worker level has been reported.
C7_FixedPhaseOrder ==
    /\ IsPrefix(phase, ExpectedPhases)
    /\ IsPrefix([k \in 1..Len(out) |-> <<out[k].tag, out[k].n>>], ExpectedLines)
    /\ status = 0 <=> pc = "done"
    /\ pc = "done" => phase = ExpectedPhases /\ Len(out) = Len(ExpectedLines)

\* A run with 8 hardware threads has ended with status 0.
C7_Witness ==
    /\ pc = "done" /\ status = 0
    /\ phase = ExpectedPhases /\ out[9].tag = "mt" /\ out[9].n = 16

\* C8: a failure to create a worker thread ends its round only: the
\* process is not aborted by it.
C8_SpawnFailureIsLocal ==
    ~(pc = "aborted" /\ status # 0)

\* C9: on a processor without AVX-512 no measurement phase begins, and
\* the process ends with a diagnostic and a non-zero status.
C9_FailFast ==
    ~env.avx512 =>
        /\ phase = <<>>
        /\ status # -1 =>
            /\ status # 0
            /\ \E k \in 1..Len(out) : out[k].tag = "diagnostic"

\* C10: rounds never overlap: every running worker belongs to the round
\* the orchestrator is spawning or joining (same level, same precision),
\* at most N workers run, and none runs once the round's join is passed.
C10_RoundsNeverOverlap ==
    /\ Cardinality(workers) <= num_threads
    /\ \A w \in workers :
        /\ RoundOf(w) = num_threads
        /\ PrecOf(w) = "sp" => pc \in {"spawn_sp", "join_sp"}
        /\ PrecOf(w) = "dp" => pc \in {"spawn_dp", "join_dp"}
    /\ pc \notin {"spawn_sp", "join_sp", "spawn_dp", "join_dp"} => workers = {}

\* All 8 double-precision workers of level 8 run, after its 8
\* single-precision workers have written their slots and ended.
C10_Witness ==
    /\ pc = "join_dp" /\ num_threads = 8
    /\ Cardinality(workers) = 8
    /\ \A w \in workers : PrecOf(w) = "dp"
    /\ WrittenOnce(writes_sp)
====
